---- MODULE Spec2Model ----
(***************************************************************************)
(* Model of terraform-provider-github-ipam: the address allocator          *)
(* (internal/ipam), the allocation ledger, and the allocation resource's   *)
(* Create / Update / Delete handlers running against the version-          *)
(* conditioned GitHub store.                                               *)
(*                                                                         *)
(* Addresses are Bits wide.  The code works on 32-bit IPv4 addresses; the  *)
(* model keeps every computation as the code writes it but on a Bits-bit   *)
(* address space, with the fixed-width arithmetic of the code (uint32)     *)
(* wrapping at 2^Bits.                                                     *)
(***************************************************************************)
EXTENDS Integers, Sequences, FiniteSets, TLC

\* ------------------------------------------------------------------ bounds
Bits == 3
MaxExisting == 2

\* --------------------------------------------------------------- variables
VARIABLES
    fin,        \* inputs of the pure function under check
    fout,       \* its result ("none" before the call)
    store,      \* allocations.json in the repository
    pc,         \* per client: "idle", "run" (in an attempt), "write", "done"
    req,        \* per client: the request being handled
    attempt,    \* per client: WithRetry's attempt counter
    sha,        \* per client: the version read by the current attempt
    pend,       \* per client: what the current attempt is about to write
    res,        \* per client: what the handler returned
    plans,      \* the resources declared in the configurations applied
    poolsYaml   \* the pool definitions held in pools.yaml

vars == <<fin, fout, store, pc, req, attempt, sha, pend, res, plans, poolsYaml>>

\* ------------------------------------------------- address-space utilities
RECURSIVE Pow2(_)
Pow2(n) == IF n <= 0 THEN 1 ELSE 2 * Pow2(n - 1)

AddrSpace == Pow2(Bits)

\* A CIDR string "<ip>/<len>" is a record; the unparsable string is BadCIDR.
BadCIDR == [ip |-> -1, len |-> -1]
NilIP == -1

CIDRStrings == [ip : 0 .. AddrSpace - 1, len : 0 .. Bits] \cup {BadCIDR}

\* net.ParseCIDR: fails on a malformed string, else yields the network with
\* the host bits of the address cleared.
ParseOK(s) == s.len >= 0 /\ s.len <= Bits /\ s.ip >= 0 /\ s.ip < AddrSpace

BlockSize(len) == Pow2(Bits - len)

ParseCIDR(s) == [ip |-> s.ip - (s.ip % BlockSize(s.len)), len |-> s.len]

Canonical == {s \in CIDRStrings : ParseOK(s) /\ ParseCIDR(s) = s}

\* cidr.AddressRange: last address of a network.
RangeEnd(n) == n.ip + BlockSize(n.len) - 1

\* net.IPNet.Contains (a nil address is contained in nothing).
Contains(n, ip) == ip # NilIP /\ n.ip <= ip /\ ip <= RangeEnd(n)

\* cidr.Inc: byte-wise increment with carry, wrapping at the top address.
Inc(ip) == (ip + 1) % AddrSpace

\* compareIPs, as the sign of a - b.
compareIPs(a, b) == IF a < b THEN -1 ELSE IF a > b THEN 1 ELSE 0

\* alignToPrefix keeps an aligned address and rounds any other up to the
\* next multiple of the block size.
alignKeepsUnaligned(ip, prefixLen) == ip
alignToPrefix(ip, prefixLen) ==
    LET bs == BlockSize(prefixLen)
        r  == ip % bs
        v  == IF r # 0 THEN ip - r + bs ELSE ip
    IN  IF v >= AddrSpace THEN NilIP ELSE v

\* A nil *string (no parent_cidr, no contiguous_with).
NilStr == [ip |-> -2, len |-> -2]

\* -------------------------------------------------------------- allocator
\* Results of the search functions: kind "ok" carries the block, any other
\* kind is the error returned; "panic" is a run-time panic of the process.
Ok(net) == [kind |-> "ok", cidr |-> net]
Err(k) == [kind |-> k, cidr |-> BadCIDR]

\* filterTopLevelAllocations: the entries without parent_cidr, in order.
filterKeepsChildren(allocations) == allocations
filterTopLevelAllocations(allocations) ==
    SelectSeq(allocations, LAMBDA a : a.parent = NilStr)

\* filterAllocationsInCIDR: the parsable entries whose network address lies
\* in the container, in order.
InCIDR(a, container) ==
    ParseOK(a.cidr) /\ Contains(container, ParseCIDR(a.cidr).ip)

filterAllocationsInCIDR(allocations, container) ==
    SelectSeq(allocations, LAMBDA a : InCIDR(a, container))

\* sort.Slice by network address: the order of entries with equal network
\* address is not specified, so every ordering that is sorted is possible.
Injective(f) == \A i, j \in DOMAIN f : f[i] = f[j] => i = j

SortedOrders(nets) ==
    LET n == Len(nets)
    IN  {[i \in 1 .. n |-> nets[p[i]]] :
            p \in {q \in [1 .. n -> 1 .. n] :
                     /\ Injective(q)
                     /\ \A i \in 1 .. n - 1 :
                          compareIPs(nets[q[i]].ip, nets[q[i + 1]].ip) <= 0}}

\* The gap test of the scan loop (lines 338-348): the candidate's last
\* address compared with the existing entry's first address.
FitsBefore(candEnd, existingIP) == compareIPs(candEnd, existingIP) <= 0

\* The scan loop and the final check of findNextInCIDR (lines 331-371).
RECURSIVE Scan(_, _, _, _, _)
Scan(container, sorted, i, cand, prefixLen) ==
    IF cand = NilIP
    THEN Err("panic")
    ELSE LET candEnd == cand + BlockSize(prefixLen) - 1
         IN  IF i > Len(sorted)
             THEN IF /\ Contains(container, cand)
                     /\ compareIPs(candEnd, RangeEnd(container)) <= 0
                  THEN Ok([ip |-> cand, len |-> prefixLen])
                  ELSE Err("NoSpaceAvailable")
             ELSE IF /\ FitsBefore(candEnd, sorted[i].ip)
                     /\ Contains(container, cand)
                     /\ Contains(container, candEnd)
                  THEN Ok([ip |-> cand, len |-> prefixLen])
                  ELSE Scan(container, sorted, i + 1,
                            alignToPrefix(Inc(RangeEnd(sorted[i])), prefixLen),
                            prefixLen)

\* findNextInCIDR: the set of results the call can produce.
findNextInCIDR(containerCIDR, existingAllocations, prefixLen) ==
    IF ~ParseOK(containerCIDR)
    THEN {Err("InvalidFormat")}
    ELSE LET container == ParseCIDR(containerCIDR)
         IN  IF prefixLen < container.len
             THEN {Err("PrefixTooLarge")}
             ELSE IF prefixLen > Bits
             THEN {Err("PrefixTooSpecific")}
             ELSE LET relevant ==
                          filterAllocationsInCIDR(existingAllocations, container)
                      nets == [i \in 1 .. Len(relevant) |->
                                  ParseCIDR(relevant[i].cidr)]
                  IN  {Scan(container, sorted, 1,
                            alignToPrefix(container.ip, prefixLen), prefixLen) :
                          sorted \in SortedOrders(nets)}

\* FindNextAvailableInParent (mode 2).
FindNextAvailableInParent(parentCIDR, childAllocations, prefixLen) ==
    findNextInCIDR(parentCIDR, childAllocations, prefixLen)

\* FindNextAvailableInPool (mode 1): the pool's CIDRs in listed order, the
\* first success wins; a panic ends the call.  When every CIDR has failed the
\* error returned is a new one that lists the reasons.
RECURSIVE TryCIDRs(_, _, _, _)
TryCIDRs(cidrs, i, topLevel, prefixLen) ==
    IF i > Len(cidrs)
    THEN {Err("NoBlockInPool")}
    ELSE LET rs == findNextInCIDR(cidrs[i], topLevel, prefixLen)
         IN  {r \in rs : r.kind \in {"ok", "panic"}}
             \cup (IF \E r \in rs : r.kind \notin {"ok", "panic"}
                   THEN TryCIDRs(cidrs, i + 1, topLevel, prefixLen)
                   ELSE {})

FindNextAvailableInPool(poolCIDRs, existingAllocations, prefixLen) ==
    TryCIDRs(poolCIDRs, 1, filterTopLevelAllocations(existingAllocations),
             prefixLen)

\* ------------------------------------------------- contiguous allocation
\* Fixed-width unsigned arithmetic of the resource package (uint32 in the
\* code): every sum and difference wraps at the address width.
U(x) == x % AddrSpace

\* uint32(1) << n: zero once the shift count reaches the width.
Shl1(n) == IF n >= Bits THEN 0 ELSE Pow2(n)

\* isInPool: the candidate lies, first to last address, in one range of the
\* pool.
isInPool(poolCIDRs, cidr) ==
    /\ ParseOK(cidr)
    /\ \E i \in 1 .. Len(poolCIDRs) :
          /\ ParseOK(poolCIDRs[i])
          /\ LET cand     == ParseCIDR(cidr)
                 pool     == ParseCIDR(poolCIDRs[i])
                 candEnd  == U(cand.ip + Shl1(Bits - cand.len) - 1)
                 poolEnd  == U(pool.ip + Shl1(Bits - pool.len) - 1)
             IN  cand.ip >= pool.ip /\ candEnd <= poolEnd

\* overlapsAny: the candidate overlaps a top-level entry; ends are exclusive
\* and computed in the fixed width.
overlapsAny(cidr, allocs) ==
    \/ ~ParseOK(cidr)
    \/ \E i \in 1 .. Len(allocs) :
          /\ allocs[i].parent = NilStr
          /\ ParseOK(allocs[i].cidr)
          /\ LET cand     == ParseCIDR(cidr)
                 candEnd  == U(cand.ip + Shl1(Bits - cand.len))
                 alloc    == ParseCIDR(allocs[i].cidr)
                 allocEnd == U(alloc.ip + Shl1(Bits - alloc.len))
             IN  cand.ip < allocEnd /\ candEnd > alloc.ip

\* findContiguousCIDR: the block before the target, else the block after it.
\* A shift by a negative count and a remainder by zero panic.
findContiguousCIDR(poolCIDRs, allocs, prefixLen, targetCIDR) ==
    IF ~ParseOK(targetCIDR)
    THEN Err("InvalidFormat")
    ELSE IF prefixLen > Bits
    THEN Err("panic")
    ELSE LET target      == ParseCIDR(targetCIDR)
             targetStart == target.ip
             targetEnd   == U(targetStart + Shl1(Bits - target.len))
             blockSize   == Shl1(Bits - prefixLen)
         IN  IF blockSize = 0
             THEN Err("panic")
             ELSE LET beforeCIDR == [ip |-> targetStart - blockSize, len |-> prefixLen]
                      afterCIDR  == [ip |-> targetEnd, len |-> prefixLen]
                  IN  IF /\ targetStart >= blockSize
                         /\ (targetStart - blockSize) % blockSize = 0
                         /\ isInPool(poolCIDRs, beforeCIDR)
                         /\ ~overlapsAny(beforeCIDR, allocs)
                      THEN Ok(beforeCIDR)
                      ELSE IF /\ targetEnd % blockSize = 0
                              /\ isInPool(poolCIDRs, afterCIDR)
                              /\ ~overlapsAny(afterCIDR, allocs)
                      THEN Ok(afterCIDR)
                      ELSE Err("NoContiguousSpace")

\* ------------------------------------------------------------------ ledger
\* An entry of the ledger (ipam.Allocation).  The metadata map and the
\* creation time are not read by any handler and are left out.
Allocation(c, id, name, par, reserved, cw) ==
    [cidr |-> c, id |-> id, name |-> name, parent |-> par,
     reserved |-> reserved, contig |-> cw]

\* NewAllocationsDatabase: the ledger maps pool ids to lists of entries.
EmptyDB == [p \in {} |-> <<>>]

\* The first of a non-empty set of indices of a list.
FirstIndex(S) == CHOOSE i \in S : \A j \in S : i <= j

\* The searches range over the map, whose iteration order is random: the
\* result is the first match of any one pool that has a match.  Each yields
\* the set of possible results as [pool, idx]; the empty set is "not found".
FindAllocationByID(db, id) ==
    {[pool |-> p,
      idx  |-> FirstIndex({i \in 1 .. Len(db[p]) : db[p][i].id = id})] :
        p \in {q \in DOMAIN db : \E i \in 1 .. Len(db[q]) : db[q][i].id = id}}

FindAllocationByCIDR(db, cidr) ==
    {[pool |-> p,
      idx  |-> FirstIndex({i \in 1 .. Len(db[p]) : db[p][i].cidr = cidr})] :
        p \in {q \in DOMAIN db : \E i \in 1 .. Len(db[q]) : db[q][i].cidr = cidr}}

FindAllocationByName(db, name) ==
    {[pool |-> p,
      idx  |-> FirstIndex({i \in 1 .. Len(db[p]) : db[p][i].name = name})] :
        p \in {q \in DOMAIN db : \E i \in 1 .. Len(db[q]) : db[q][i].name = name}}

GetAllocationsForPool(db, poolID) ==
    IF poolID \in DOMAIN db THEN db[poolID] ELSE <<>>

\* GetAllocationsForParent: the entries of every pool that name the parent.
\* Its callers sort the list or take its length, so the order in which the
\* pools are visited is fixed here.
RECURSIVE ChildrenOf(_, _, _)
ChildrenOf(db, pools, parentCIDR) ==
    IF pools = {}
    THEN <<>>
    ELSE LET p == CHOOSE q \in pools : TRUE
         IN  SelectSeq(db[p], LAMBDA a : a.parent = parentCIDR)
                 \o ChildrenOf(db, pools \ {p}, parentCIDR)

GetAllocationsForParentNone(db, parentCIDR) == <<>>
GetAllocationsForParent(db, parentCIDR) ==
    ChildrenOf(db, DOMAIN db, parentCIDR)

AddAllocation(db, poolID, alloc) ==
    [p \in DOMAIN db \cup {poolID} |->
        IF p = poolID
        THEN Append(GetAllocationsForPool(db, poolID), alloc)
        ELSE db[p]]

\* RemoveAllocation drops every entry of the pool's list that has the id; it
\* fails when the pool has no list or the list has no such entry.
RemoveAllocationEverywhere(db, poolID, id) ==
    [err |-> \A p \in DOMAIN db : \A i \in 1 .. Len(db[p]) : db[p][i].id # id,
     db  |-> [p \in DOMAIN db |-> SelectSeq(db[p], LAMBDA a : a.id # id)]]
RemoveAllocation(db, poolID, id) ==
    IF poolID \notin DOMAIN db
    THEN [err |-> TRUE, db |-> db]
    ELSE IF \A i \in 1 .. Len(db[poolID]) : db[poolID][i].id # id
    THEN [err |-> TRUE, db |-> db]
    ELSE [err |-> FALSE,
          db  |-> [db EXCEPT ![poolID] = SelectSeq(@, LAMBDA a : a.id # id)]]

\* ------------------------------------------------------ pools and requests
\* pools.yaml: one pool of four addresses' worth of blocks at the bottom of
\* the address space, not reserved.
PoolCatalog ==
    [p \in {"p1"} |-> [cidr |-> <<[ip |-> 0, len |-> Bits - 2]>>,
                       reserved |-> FALSE]]

Names == {"a", "b"}
Masks == {Bits - 1, Bits}

\* The allocation id is the UUIDv5 of "pool:<id>:name:<n>:mask:<m>" or of
\* "parent:<cidr>:name:<n>:mask:<m>"; the record keeps exactly the parts
\* the hashed string is made of.
AllocationID(poolID, parentCIDR, name, mask) ==
    [pool |-> poolID, parent |-> parentCIDR, name |-> name, mask |-> mask]

NoID == AllocationID("", NilStr, "", 0)

\* A request: the plan (Create, Update) or prior state (Delete) of a resource.
Request(kind, poolID, parentCIDR, name, mask, cw, status, id, c) ==
    [kind |-> kind, pool |-> poolID, parent |-> parentCIDR, name |-> name,
     mask |-> mask, contig |-> cw, status |-> status, id |-> id, cidr |-> c]

NoRequest == Request("none", "", NilStr, "", 0, NilStr, "null", NoID, BadCIDR)

\* Outcome of one attempt before the write: return (err = "" is success) or
\* go on to write the changed ledger.
Return(err, c) == [write |-> FALSE, err |-> err, cidr |-> c, db |-> EmptyDB]
WriteBack(db, c) == [write |-> TRUE, err |-> "", cidr |-> c, db |-> db]

\* ----------------------------------------------------------------- Create
\* Lines 297-348 of Create: the entry is built and appended to the pool.
BuildAndAdd(db, plan, poolID, found) ==
    IF found.kind # "ok"
    THEN Return(found.kind, BadCIDR)
    ELSE WriteBack(
            AddAllocation(db, poolID,
                Allocation(found.cidr, plan.id, plan.name, plan.parent,
                           plan.status = "reservation", plan.contig)),
            found.cidr)

\* The idempotency check of Create (lines 220-227).
IdempotencyCheckOff(db, id) == {}
IdempotencyCheck(db, id) == FindAllocationByID(db, id)

\* The name check of Create (lines 229-232): an entry of any pool has the name.
NameNeverTaken(db, name) == FALSE
NameTaken(db, name) == FindAllocationByName(db, name) # {}

\* The body of the Create attempt after both reads: the set of outcomes.
CreateAttempt(db, plan) ==
    IF IdempotencyCheck(db, plan.id) # {}
    THEN {Return("", db[m.pool][m.idx].cidr) : m \in IdempotencyCheck(db, plan.id)}
    ELSE IF NameTaken(db, plan.name)
    THEN {Return("NameExists", BadCIDR)}
    ELSE IF plan.pool # ""
    THEN IF plan.pool \notin DOMAIN poolsYaml
         THEN {Return("PoolNotFound", BadCIDR)}
         ELSE IF poolsYaml[plan.pool].reserved
         THEN {Return("PoolReserved", BadCIDR)}
         ELSE LET existingAllocs == GetAllocationsForPool(db, plan.pool)
                  poolDef        == poolsYaml[plan.pool].cidr
              IN  IF plan.contig # NilStr
                  THEN {BuildAndAdd(db, plan, plan.pool,
                            findContiguousCIDR(poolDef, existingAllocs,
                                               plan.mask, plan.contig))}
                  ELSE {BuildAndAdd(db, plan, plan.pool, r) :
                           r \in FindNextAvailableInPool(poolDef, existingAllocs,
                                                         plan.mask)}
    ELSE IF FindAllocationByCIDR(db, plan.parent) = {}
    THEN {Return("ParentNotFound", BadCIDR)}
    ELSE UNION {
            IF db[m.pool][m.idx].reserved
            THEN {Return("ParentReserved", BadCIDR)}
            ELSE {BuildAndAdd(db, plan, m.pool, r) :
                     r \in FindNextAvailableInParent(plan.parent,
                               GetAllocationsForParent(db, plan.parent), plan.mask)} :
            m \in FindAllocationByCIDR(db, plan.parent)}

\* ----------------------------------------------------------------- Update
UpdateAttempt(db, plan) ==
    IF FindAllocationByID(db, plan.id) = {}
    THEN {Return("NotFound", BadCIDR)}
    ELSE UNION {
            LET alloc == db[m.pool][m.idx]
            IN  IF /\ plan.name # alloc.name
                   /\ \E n \in FindAllocationByName(db, plan.name) :
                          db[n.pool][n.idx].id # alloc.id
                THEN {Return("NameExists", BadCIDR)}
                ELSE LET changed == [alloc EXCEPT
                                        !.name = plan.name,
                                        !.reserved = IF plan.status # "null"
                                                     THEN plan.status = "reservation"
                                                     ELSE @]
                         removed == RemoveAllocation(db, m.pool, alloc.id)
                     IN  IF removed.err
                         THEN {Return("RemoveFailed", BadCIDR)}
                         ELSE {WriteBack(AddAllocation(removed.db, m.pool, changed),
                                         alloc.cidr)} :
            m \in FindAllocationByID(db, plan.id)}

\* ----------------------------------------------------------------- Delete
DeleteAttempt(db, plan) ==
    IF FindAllocationByID(db, plan.id) = {}
    THEN {Return("", BadCIDR)}
    ELSE IF Len(GetAllocationsForParent(db, plan.cidr)) > 0
    THEN {Return("HasChildren", BadCIDR)}
    ELSE {LET removed == RemoveAllocation(db, m.pool, plan.id)
          IN  IF removed.err
              THEN Return("RemoveFailed", BadCIDR)
              ELSE WriteBack(removed.db, BadCIDR) :
            m \in FindAllocationByID(db, plan.id)}

\* ------------------------------------------------------------------ store
\* allocations.json in the repository: absent, or holding a ledger.  The
\* version tag of a file is the hash of its content (the git blob SHA), so
\* the tag is modelled by the content itself; the tag of no file is "".
NoFile == [exists |-> FALSE, db |-> EmptyDB]
File(db) == [exists |-> TRUE, db |-> db]

Clients == {1, 2}
MaxRetries == 1

\* What a handler returned: the kind of request it was called with, and
\* success with the block reported or the error.
Outcome(r, status, err, c) ==
    [kind |-> r.kind, status |-> status, err |-> err, cidr |-> c]

NoOutcome == Outcome(NoRequest, "none", "", BadCIDR)
Success(r, c) == Outcome(r, "ok", "", c)
Failure(r, e) == Outcome(r, "error", e, BadCIDR)

\* What an attempt is about to write: the changed ledger and the block that
\* the handler reports if the write succeeds.
NoPending == [db |-> EmptyDB, cidr |-> BadCIDR]
Pending(db, c) == [db |-> db, cidr |-> c]

Positions(db) ==
    UNION {{[pool |-> p, idx |-> i] : i \in 1 .. Len(db[p])} : p \in DOMAIN db}

\* The resources of the Terraform configurations being applied.  A resource
\* declares name, cidr_mask and status, and either the pool or, as
\* parent_cidr, the block Anchor; it may name Anchor as contiguous_with.
Anchor == [ip |-> 0, len |-> Bits - 1]

Declarations ==
    [name : Names, mask : Masks, status : {"allocation", "reservation"},
     parent : {NilStr, Anchor}, contig : {NilStr, Anchor}]

\* Two resources are declared, both plain allocations: one top-level
\* allocation named "a", and any other (or the same) resource.
Configurations ==
    {{d1, d2} :
        d1 \in {d \in Declarations : /\ d.name = "a" /\ d.status = "allocation"
                                      /\ d.parent = NilStr /\ d.contig = NilStr},
        d2 \in {d \in Declarations : d.status = "allocation"}}

\* The requests Terraform can issue: Create of a declared resource; Update of
\* a resource of the ledger to the name and status of a declared one; Delete
\* of a resource of the ledger.
CreateRequests ==
    {Request("create", IF d.parent = NilStr THEN "p1" ELSE "", d.parent, d.name,
             d.mask, d.contig, d.status,
             AllocationID(IF d.parent = NilStr THEN "p1" ELSE "", d.parent,
                          d.name, d.mask),
             BadCIDR) : d \in plans}

UpdateRequests(db) ==
    {Request("update", "", NilStr, d.name, 0, NilStr, d.status,
             db[m.pool][m.idx].id, BadCIDR) :
        m \in Positions(db), d \in plans}

DeleteRequests(db) ==
    {Request("delete", "", NilStr, db[m.pool][m.idx].name, 0, NilStr, "null",
             db[m.pool][m.idx].id, db[m.pool][m.idx].cidr) :
        m \in Positions(db)}

Attempts(db, r) ==
    IF r.kind = "create" THEN CreateAttempt(db, r)
    ELSE IF r.kind = "update" THEN UpdateAttempt(db, r)
    ELSE DeleteAttempt(db, r)

\* No handler is running.
Idle ==
    /\ pc = [c \in Clients |-> "idle"]
    /\ req = [c \in Clients |-> NoRequest]
    /\ attempt = [c \in Clients |-> 0]
    /\ sha = [c \in Clients |-> NoFile]
    /\ pend = [c \in Clients |-> NoPending]
    /\ res = [c \in Clients |-> NoOutcome]

\* The pure functions are checked with no configuration and no ledger file.
Quiet == plans = {} /\ store = NoFile /\ poolsYaml = PoolCatalog /\ Idle

InitLedger ==
    /\ plans \in Configurations
    /\ store \in {NoFile, File(EmptyDB)}
    /\ poolsYaml = PoolCatalog
    /\ Idle


\* ------------------------------------------ inputs of the pure functions
\* Allocation as the allocator reads it: its CIDR string and parent_cidr.
Entry(c, par) == [cidr |-> c, parent |-> par]

StrIndex(s) == IF s = BadCIDR THEN 0 ELSE 1 + s.len * AddrSpace + s.ip

\* Lists of at most MaxExisting entries.  filterAllocationsInCIDR keeps the
\* order of its input and sort.Slice then reorders it, every order of ties
\* being possible, so one list per multiset of entries covers every list.
EntryLists(S) ==
    UNION {{l \in [1 .. n -> S] :
              \A i \in 1 .. n - 1 : StrIndex(l[i].cidr) <= StrIndex(l[i + 1].cidr)} :
           n \in 0 .. MaxExisting}

FindInputs ==
    [container : Canonical \cup {BadCIDR},
     existing  : EntryLists({Entry(c, NilStr) : c \in Canonical \cup {BadCIDR}}),
     prefixLen : 0 .. Bits + 1]

NoResult == [kind |-> "none", cidr |-> BadCIDR]

\* ----------------------------------------------- specification SpecFind
\* findNextInCIDR applied to every container, list and prefix length.
InitFind == fin \in FindInputs /\ fout = NoResult /\ Quiet

CallFindNext ==
    /\ fout = NoResult
    /\ fout' \in findNextInCIDR(fin.container, fin.existing, fin.prefixLen)
    /\ UNCHANGED <<fin, store, pc, req, attempt, sha, pend, res, plans, poolsYaml>>

NextFind == CallFindNext

SpecFind == InitFind /\ [][NextFind]_vars

\* Two networks share an address.
SharesAddress(a, b) ==
    \E x \in 0 .. AddrSpace - 1 : Contains(a, x) /\ Contains(b, x)

\* The blocks of the requested size that are aligned, inside the container
\* and disjoint from every parsable existing entry.
FreeBlocks(container, existing, prefixLen) ==
    {b \in Canonical :
        /\ b.len = prefixLen
        /\ Contains(container, b.ip) /\ Contains(container, RangeEnd(b))
        /\ \A i \in 1 .. Len(existing) :
              ParseOK(existing[i].cidr)
                  => ~SharesAddress(b, ParseCIDR(existing[i].cidr))}

FindValid ==
    /\ ParseOK(fin.container)
    /\ fin.prefixLen >= fin.container.len
    /\ fin.prefixLen <= Bits

\* C2: a block returned by findNextInCIDR shares no address with any entry
\* of the existing list.
C2_NoOverlapWithExisting ==
    fout.kind = "ok" =>
        \A i \in 1 .. Len(fin.existing) :
            ParseOK(fin.existing[i].cidr)
                => ~SharesAddress(fout.cidr, ParseCIDR(fin.existing[i].cidr))

\* C3: a block returned by findNextInCIDR has the requested prefix length,
\* starts on a multiple of its block size and lies, first and last address,
\* inside the container.
C3_AlignedInsideContainer ==
    fout.kind = "ok" =>
        /\ fout.cidr.len = fin.prefixLen
        /\ fout.cidr.ip % BlockSize(fin.prefixLen) = 0
        /\ Contains(ParseCIDR(fin.container), fout.cidr.ip)
        /\ Contains(ParseCIDR(fin.container), RangeEnd(fout.cidr))

\* C3 witness: a block found after the candidate was moved past an existing
\* entry smaller than the request and re-aligned.
C3_Witness ==
    /\ fout.kind = "ok"
    /\ Len(fin.existing) >= 1
    /\ ParseOK(fin.existing[1].cidr)
    /\ fin.existing[1].cidr.len > fin.prefixLen
    /\ fin.existing[1].cidr.ip = fin.container.ip
    /\ fout.cidr.ip = fin.container.ip + BlockSize(fin.prefixLen)

\* C4: findNextInCIDR returns the lowest-addressed free block.
C4_LowestFreeBlock ==
    (fout.kind = "ok" /\ FindValid) =>
        LET free == FreeBlocks(ParseCIDR(fin.container), fin.existing, fin.prefixLen)
        IN  /\ fout.cidr \in free
            /\ \A b \in free : fout.cidr.ip <= b.ip

\* C5: findNextInCIDR fails with NoSpaceAvailable exactly when there is no
\* free block, and succeeds whenever there is one.
C5_NoSpaceExactly ==
    (fout # NoResult /\ FindValid) =>
        LET free == FreeBlocks(ParseCIDR(fin.container), fin.existing, fin.prefixLen)
        IN  /\ (fout.kind = "NoSpaceAvailable") <=> (free = {})
            /\ (free # {}) => fout.kind = "ok"

\* --------------------------------------------- specification SpecContig
\* findContiguousCIDR applied to pools of one or two ranges, every list of
\* entries (top-level and sub-allocations), prefix length and target.
ChildMark == [ip |-> 0, len |-> 0]

PoolRangeLists ==
    LET big == {b \in Canonical : b.len <= 1}
    IN  {<<a>> : a \in big} \cup {l \in [1 .. 2 -> big] : l[1] # l[2]}

ContigInputs ==
    [pool      : PoolRangeLists,
     allocs    : EntryLists({Entry(c, par) : c \in Canonical \cup {BadCIDR},
                                             par \in {NilStr, ChildMark}}),
     prefixLen : 0 .. Bits + 1,
     target    : Canonical \cup {BadCIDR}]

InitContig == fin \in ContigInputs /\ fout = NoResult /\ Quiet

CallFindContiguous ==
    /\ fout = NoResult
    /\ fout' = findContiguousCIDR(fin.pool, fin.allocs, fin.prefixLen, fin.target)
    /\ UNCHANGED <<fin, store, pc, req, attempt, sha, pend, res, plans, poolsYaml>>

NextContig == CallFindContiguous

SpecContig == InitContig /\ [][NextContig]_vars

\* C8: a block returned by findContiguousCIDR ends exactly where the target
\* starts or starts exactly where the target ends.
C8_OnlyAdjacent ==
    fout.kind = "ok" =>
        \/ RangeEnd(fout.cidr) + 1 = ParseCIDR(fin.target).ip
        \/ fout.cidr.ip = RangeEnd(ParseCIDR(fin.target)) + 1

\* A side of the target is feasible: the block is aligned, lies inside one
\* range of the pool and shares no address with a top-level entry.
SideFree(b) ==
    /\ b.ip >= 0 /\ RangeEnd(b) < AddrSpace
    /\ b.ip % BlockSize(b.len) = 0
    /\ \E i \in 1 .. Len(fin.pool) :
          /\ Contains(fin.pool[i], b.ip) /\ Contains(fin.pool[i], RangeEnd(b))
    /\ \A i \in 1 .. Len(fin.allocs) :
          (fin.allocs[i].parent = NilStr /\ ParseOK(fin.allocs[i].cidr))
              => ~SharesAddress(b, ParseCIDR(fin.allocs[i].cidr))

\* C9: findContiguousCIDR returns the block before the target when that side
\* is feasible, else the block after it when that side is feasible, else it
\* fails; sub-allocations play no part.
C9_BeforeThenAfter ==
    (fout # NoResult /\ ParseOK(fin.target) /\ fin.prefixLen <= Bits) =>
        LET t      == ParseCIDR(fin.target)
            before == [ip |-> t.ip - BlockSize(fin.prefixLen), len |-> fin.prefixLen]
            after  == [ip |-> RangeEnd(t) + 1, len |-> fin.prefixLen]
        IN  IF SideFree(before) THEN fout = Ok(before)
            ELSE IF SideFree(after) THEN fout = Ok(after)
            ELSE fout.kind # "ok"

\* ------------------------------------------------- specification Spec
\* Clients run Create, Update and Delete against the one store.
\* Terraform calls a handler with a request.
Begin(c) ==
    /\ pc[c] = "idle"
    /\ \E r \in CreateRequests \cup UpdateRequests(store.db)
                    \cup DeleteRequests(store.db) :
          req' = [req EXCEPT ![c] = r]
    /\ pc' = [pc EXCEPT ![c] = "run"]
    /\ res' = [res EXCEPT ![c] = NoOutcome]
    /\ UNCHANGED <<store, attempt, sha, pend, fin, fout, plans, poolsYaml>>

\* The handler returns: WithRetry is over and the outcome is reported.
Finish(c, outcome) ==
    /\ pc' = [pc EXCEPT ![c] = "idle"]
    /\ res' = [res EXCEPT ![c] = outcome]
    /\ req' = [req EXCEPT ![c] = NoRequest]
    /\ attempt' = [attempt EXCEPT ![c] = 0]
    /\ sha' = [sha EXCEPT ![c] = NoFile]
    /\ pend' = [pend EXCEPT ![c] = NoPending]

\* GetPools or GetAllocations fails: the attempt returns the error, which is
\* not retried.
ReadFails(c) ==
    /\ pc[c] = "run"
    /\ Finish(c, Failure(req[c], "ReadFailed"))
    /\ UNCHANGED <<store, fin, fout, plans, poolsYaml>>

\* One attempt up to its return or its write: GetAllocations (an absent file
\* reads as the empty ledger with tag "") and the handler's decision.
Attempt(c) ==
    /\ pc[c] = "run"
    /\ \E o \in Attempts(store.db, req[c]) :
          IF o.write
          THEN /\ pc' = [pc EXCEPT ![c] = "write"]
               /\ sha' = [sha EXCEPT ![c] = store]
               /\ pend' = [pend EXCEPT ![c] = Pending(o.db, o.cidr)]
               /\ UNCHANGED <<req, attempt, res>>
          ELSE Finish(c, IF o.err = ""
                         THEN Success(req[c], o.cidr)
                         ELSE Failure(req[c], o.err))
    /\ UNCHANGED <<store, fin, fout, plans, poolsYaml>>

\* UpdateAllocations: UpdateFile with the tag read, CreateFile when the tag
\* is "".  The store accepts the write when the tag is the file's current
\* tag, or when it creates a file that does not exist.
AcceptsAnyTag(st, tag) == TRUE
Accepts(st, tag) == IF tag.exists THEN st = tag ELSE ~st.exists

WriteOk(c) ==
    /\ pc[c] = "write"
    /\ Accepts(store, sha[c])
    /\ store' = File(pend[c].db)
    /\ Finish(c, Success(req[c], pend[c].cidr))
    /\ UNCHANGED <<fin, fout, plans, poolsYaml>>

\* IsConflictError: the error is a GitHub error response with status 409.
IsConflictErrorAny(status) == TRUE
IsConflictError(status) == status = 409

\* UpdateAllocations returned an error of this status and kind.  On a
\* conflict the closure returns (true, err) and WithRetry takes over: before
\* the last attempt it sleeps and runs the attempt again, unless the context
\* is cancelled during the sleep; after the last it gives up.  On any other
\* error the closure returns (false, err) and the handler returns the error.
WriteError(c, status, kind) ==
    IF IsConflictError(status)
    THEN IF attempt[c] < MaxRetries
         THEN \/ /\ pc' = [pc EXCEPT ![c] = "run"]
                 /\ attempt' = [attempt EXCEPT ![c] = @ + 1]
                 /\ sha' = [sha EXCEPT ![c] = NoFile]
                 /\ pend' = [pend EXCEPT ![c] = NoPending]
                 /\ UNCHANGED <<req, res>>
              \/ Finish(c, Failure(req[c], "Cancelled"))
         ELSE Finish(c, Failure(req[c], "MaxRetriesExceeded"))
    ELSE Finish(c, Failure(req[c], kind))

\* The store answers 409.  UpdateFile with a tag that is no longer the
\* file's tag is answered 409.  CreateFile on a file that meanwhile exists
\* is refused as well, with 409 or with another status.
WriteConflict(c) ==
    /\ pc[c] = "write"
    /\ ~Accepts(store, sha[c])
    /\ WriteError(c, 409, "Conflict")
    /\ UNCHANGED <<store, fin, fout, plans, poolsYaml>>

\* CreateFile refused with a status other than 409: not a conflict for
\* IsConflictError, so the handler returns the error.
WriteRejected(c) ==
    /\ pc[c] = "write"
    /\ ~sha[c].exists
    /\ store.exists
    /\ WriteError(c, 422, "WriteRejected")
    /\ UNCHANGED <<store, fin, fout, plans, poolsYaml>>

\* The write fails in transit or at the server: the handler returns the
\* error.
WriteFails(c) ==
    /\ pc[c] = "write"
    /\ WriteError(c, 500, "WriteFailed")
    /\ UNCHANGED <<store, fin, fout, plans, poolsYaml>>

Next ==
    \E c \in Clients :
        \/ Begin(c)
        \/ ReadFails(c)
        \/ Attempt(c)
        \/ WriteOk(c)
        \/ WriteConflict(c)
        \/ WriteRejected(c)
        \/ WriteFails(c)

NoInput == [container |-> BadCIDR, existing |-> <<>>, prefixLen |-> 0]

Init == InitLedger /\ fin = NoInput /\ fout = NoResult

Spec == Init /\ [][Next]_vars

\* The entries of a ledger, as positions, and the entry at a position.
At(db, m) == db[m.pool][m.idx]

\* Two blocks are immediately adjacent: one ends where the other starts.
Adjacent(a, b) == RangeEnd(a) + 1 = b.ip \/ RangeEnd(b) + 1 = a.ip

\* C1: in the ledger no two top-level entries of one pool share an address,
\* and no two entries with the same parent share an address.
C1_NoOverlap ==
    \A m, n \in Positions(store.db) :
        (/\ m # n
         /\ At(store.db, m).parent = At(store.db, n).parent
         /\ At(store.db, m).parent = NilStr => m.pool = n.pool)
            => ~SharesAddress(ParseCIDR(At(store.db, m).cidr),
                              ParseCIDR(At(store.db, n).cidr))

\* The handler of client c returns in this step.
Returns(c) == pc[c] # "idle" /\ pc'[c] = "idle"

\* C6: the ledger never holds two entries with the same id, and a Create
\* that succeeds returns the block of the one entry that has its id.
C6_Step ==
    /\ \A m, n \in Positions(store'.db) :
          At(store'.db, m).id = At(store'.db, n).id => m = n
    /\ \A c \in Clients :
          (Returns(c) /\ req[c].kind = "create" /\ res'[c].status = "ok")
              => \E m \in Positions(store'.db) :
                    /\ At(store'.db, m).id = req[c].id
                    /\ At(store'.db, m).cidr = res'[c].cidr

C6_IdempotentCreate == [][C6_Step]_vars

\* C6 witness: one resource is declared, so every Create has the same key;
\* both clients have created it successfully and were given the same block,
\* the block of the single entry of the ledger.
C6_Witness ==
    /\ Cardinality(plans) = 1
    /\ \A c \in Clients :
          /\ pc[c] = "idle" /\ res[c].kind = "create" /\ res[c].status = "ok"
          /\ \E m \in Positions(store.db) : At(store.db, m).cidr = res[c].cidr
    /\ Cardinality(Positions(store.db)) = 1

\* C10: an entry created with contiguous_with is immediately adjacent to the
\* block it names.
C10_StoredAdjacent ==
    \A m \in Positions(store.db) :
        At(store.db, m).contig # NilStr
            => Adjacent(ParseCIDR(At(store.db, m).cidr),
                        ParseCIDR(At(store.db, m).contig))

\* The snapshot client c is about to write from has been replaced: the file
\* it read has other content now, or the file it found absent exists.
Stale(c) ==
    /\ pc[c] = "write"
    /\ IF sha[c].exists THEN store # sha[c] ELSE store.exists

\* The handler of client c saw the store answer Conflict: WithRetry retries
\* or gives up.
SawConflict(c) ==
    \/ pc'[c] = "run"
    \/ Returns(c) /\ res'[c].err \in {"Cancelled", "MaxRetriesExceeded"}

\* The store refused the write of client c: the handler does not succeed.
Refused(c) ==
    \/ SawConflict(c)
    \/ Returns(c) /\ res'[c].err = "WriteRejected"

\* The write of client c was lost in transit.
Lost(c) == Returns(c) /\ res'[c].err = "WriteFailed"

\* The ledger shows what a successful request reported.
Reflected(r, out, db) ==
    IF r.kind = "create"
    THEN \E m \in Positions(db) :
            At(db, m).id = r.id /\ At(db, m).cidr = out.cidr
    ELSE IF r.kind = "update"
    THEN \E m \in Positions(db) :
            /\ At(db, m).id = r.id /\ At(db, m).cidr = out.cidr
            /\ At(db, m).name = r.name
            /\ r.status # "null"
                  => At(db, m).reserved = (r.status = "reservation")
    ELSE \A m \in Positions(db) : At(db, m).id # r.id

\* A step changes the ledger only by the write of a client whose snapshot is
\* current, and a handler that returns success is reflected in the ledger.
NoLostUpdate ==
    /\ store' # store
          => \E c \in Clients :
                pc[c] = "write" /\ ~Stale(c) /\ store' = File(pend[c].db)
    /\ \A c \in Clients :
          (Returns(c) /\ res'[c].status = "ok")
              => Reflected(req[c], res'[c], store'.db)

\* C7: every success is reflected in the ledger, and a write from a replaced
\* snapshot is refused with Conflict and changes nothing.
C7_StaleWriteConflicts ==
    [][/\ NoLostUpdate
       /\ \A c \in Clients :
             (Stale(c) /\ pc'[c] # "write")
                 => store' = store /\ (SawConflict(c) \/ Lost(c))]_vars

\* The part of C7 that does hold: every success is reflected in the ledger,
\* a write from a replaced snapshot is refused and changes nothing, and it is
\* refused with Conflict when it carries the version tag of a file read.
StaleWriteRefused ==
    [][/\ NoLostUpdate
       /\ \A c \in Clients :
             (Stale(c) /\ pc'[c] # "write")
                 => /\ store' = store
                    /\ Refused(c) \/ Lost(c)
                    /\ sha[c].exists => (SawConflict(c) \/ Lost(c))]_vars

\* --------------------------------------------------- both address widths
\* net.ParseCIDR accepts both address families.  Next to the Bits-wide
\* family (IPv4) stands the wide one (IPv6), WideBits wide; the allocator's
\* uint64 words are WordBits wide.  As in the code, an address is narrower
\* than a word and a word is narrower than a wide address.
WordBits == 2 * Bits
WideBits == 2 * Bits + 1

\* A network of either family (net.IPNet: address, ones and bits of the
\* mask); the unparsable string is BadNet.
Net(ip, len, bits) == [ip |-> ip, len |-> len, bits |-> bits]

BadNet == Net(-1, -1, 0)

NetStrings(bits) == {Net(ip, len, bits) : ip \in 0 .. Pow2(bits) - 1, len \in 0 .. bits}

\* net.ParseCIDR on either family: the host bits of the address are cleared.
ParseNet(s) == Net(s.ip - (s.ip % Pow2(s.bits - s.len)), s.len, s.bits)

ParsesNet(s) == s # BadNet

Networks(bits) == {s \in NetStrings(bits) : ParseNet(s) = s}

\* First and last address of a network, in unbounded arithmetic.
NetStart(n) == n.ip
NetEnd(n) == n.ip + Pow2(n.bits - n.len) - 1

\* Two networks share an address: same family and intersecting ranges.
NetsShare(a, b) ==
    a.bits = b.bits /\ NetStart(a) <= NetEnd(b) /\ NetStart(b) <= NetEnd(a)

\* ipToUint32: the address as a number; To4 is nil on a wide address and
\* the result is then 0.
ipToUint32(n) == IF n.bits = Bits THEN n.ip ELSE 0

\* networksOverlap: start and end of both networks in the fixed width
\* (uint32), the shift count taken from the mask's own width.
networksOverlap(a, b) ==
    LET aStart == ipToUint32(a)
        aEnd   == U(aStart + Shl1(a.bits - a.len) - 1)
        bStart == ipToUint32(b)
        bEnd   == U(bStart + Shl1(b.bits - b.len) - 1)
    IN  aStart <= bEnd /\ bStart <= aEnd

\* -------------------------------------------- specification SpecOverlap
\* networksOverlap applied to every pair of networks of the two families.
OverlapInputs ==
    [a : Networks(Bits) \cup Networks(WideBits),
     b : Networks(Bits) \cup Networks(WideBits)]

Verdict(v) == [kind |-> "verdict", value |-> v]

InitOverlap == fin \in OverlapInputs /\ fout = NoResult /\ Quiet

CallNetworksOverlap ==
    /\ fout = NoResult
    /\ fout' = Verdict(networksOverlap(fin.a, fin.b))
    /\ UNCHANGED <<fin, store, pc, req, attempt, sha, pend, res, plans, poolsYaml>>

NextOverlap == CallNetworksOverlap

SpecOverlap == InitOverlap /\ [][NextOverlap]_vars

\* C12: for two networks of the same width, narrow or wide, networksOverlap
\* is true exactly when startA <= endB and startB <= endA on the full-width
\* addresses, and it gives the same answer for the swapped pair.
C12_OverlapFullWidth ==
    (fout # NoResult /\ fin.a.bits = fin.b.bits)
        => /\ fout.value = (NetStart(fin.a) <= NetEnd(fin.b)
                                /\ NetStart(fin.b) <= NetEnd(fin.a))
           /\ fout.value = networksOverlap(fin.b, fin.a)

\* On the narrow family the answer of networksOverlap is the full-width one.
OverlapNarrowExact ==
    (fout # NoResult /\ fin.a.bits = Bits /\ fin.b.bits = Bits)
        => fout.value = NetsShare(fin.a, fin.b)

\* ------------------------------------------------------ ValidateNoOverlap
\* A function that returns error(nil).
NoError == [kind |-> "nil", cidr |-> BadCIDR]

\* Index of the first entry of the list that parses and overlaps the new
\* network, 0 when there is none: entries that do not parse are skipped.
FirstOverlap(existingAllocations, newNet) ==
    LET hits == {i \in 1 .. Len(existingAllocations) :
                    /\ ParsesNet(existingAllocations[i].cidr)
                    /\ networksOverlap(newNet, ParseNet(existingAllocations[i].cidr))}
    IN  IF hits = {} THEN 0 ELSE FirstIndex(hits)

ValidateNoOverlap(existingAllocations, newCIDR) ==
    IF ~ParsesNet(newCIDR)
    THEN Err("InvalidFormat")
    ELSE IF FirstOverlap(existingAllocations, ParseNet(newCIDR)) # 0
    THEN Err("Overlap")
    ELSE NoError

\* ------------------------------------------- specification SpecValidate
\* The wide networks among the inputs of the list-taking functions: the
\* whole wide space and the smallest blocks at its bottom.
WideNear ==
    {n \in Networks(WideBits) : n.len = 0 \/ (n.len >= WideBits - 1 /\ n.ip < 4)}

\* Lists of at most MaxExisting entries.
ListsOf(S) == UNION {[1 .. n -> S] : n \in 0 .. MaxExisting}

ValidateInputs ==
    [newCIDR  : NetStrings(Bits) \cup WideNear \cup {BadNet},
     existing : ListsOf({Entry(c, NilStr) :
                            c \in Networks(Bits) \cup WideNear \cup {BadNet}})]

InitValidate == fin \in ValidateInputs /\ fout = NoResult /\ Quiet

CallValidateNoOverlap ==
    /\ fout = NoResult
    /\ fout' = ValidateNoOverlap(fin.existing, fin.newCIDR)
    /\ UNCHANGED <<fin, store, pc, req, attempt, sha, pend, res, plans, poolsYaml>>

NextValidate == CallValidateNoOverlap

SpecValidate == InitValidate /\ [][NextValidate]_vars

\* C11: for a candidate that parses, ValidateNoOverlap fails exactly when
\* the candidate shares an address with an entry of the list that parses;
\* entries that do not parse never make it fail.
C11_FailsIffShares ==
    (fout # NoResult /\ ParsesNet(fin.newCIDR))
        => ((fout # NoError)
              <=> \E i \in 1 .. Len(fin.existing) :
                     /\ ParsesNet(fin.existing[i].cidr)
                     /\ NetsShare(ParseNet(fin.newCIDR),
                                  ParseNet(fin.existing[i].cidr)))

\* With the candidate and every entry of the narrow family (or unparsable),
\* ValidateNoOverlap fails exactly when an address is shared.
ValidateNarrowExact ==
    (/\ fout # NoResult
     /\ ParsesNet(fin.newCIDR) /\ fin.newCIDR.bits = Bits
     /\ \A i \in 1 .. Len(fin.existing) :
           ParsesNet(fin.existing[i].cidr) => fin.existing[i].cidr.bits = Bits)
        => ((fout # NoError)
              <=> \E i \in 1 .. Len(fin.existing) :
                     /\ ParsesNet(fin.existing[i].cidr)
                     /\ NetsShare(ParseNet(fin.newCIDR),
                                  ParseNet(fin.existing[i].cidr)))

\* ------------------------------------------------ CalculateAvailableSpace
\* uint64 arithmetic: sums wrap at the word width and a shift by the word
\* width or more gives 0.
Word(x) == x % Pow2(WordBits)

ShlWord(n) == IF n >= WordBits THEN 0 ELSE Pow2(n)

\* net.IPNet.Contains on the address of a network: false across families.
ContainsNet(container, n) ==
    /\ n.bits = container.bits
    /\ container.ip <= n.ip /\ n.ip <= NetEnd(container)

\* filterAllocationsInCIDR on either family: the entries that parse and
\* whose network address the container contains, in the order of the list.
filterAllocationsInNet(allocations, container) ==
    SelectSeq(allocations,
              LAMBDA a : ParsesNet(a.cidr) /\ ContainsNet(container, ParseNet(a.cidr)))

\* allocatedAddresses after the first i entries of the relevant list.
RECURSIVE allocatedAddresses(_, _)
allocatedAddresses(relevant, i) ==
    IF i = 0
    THEN 0
    ELSE LET allocNet == ParseNet(relevant[i].cidr)
         IN  Word(allocatedAddresses(relevant, i - 1)
                    + ShlWord(allocNet.bits - allocNet.len))

Space(v) == [kind |-> "ok", value |-> v]

CalculateAvailableSpace(containerCIDR, allocations) ==
    IF ~ParsesNet(containerCIDR)
    THEN Err("InvalidFormat")
    ELSE LET containerNet   == ParseNet(containerCIDR)
             totalAddresses == ShlWord(containerNet.bits - containerNet.len)
             relevant       == filterAllocationsInNet(allocations, containerNet)
             allocated      == allocatedAddresses(relevant, Len(relevant))
         IN  IF allocated > totalAddresses
             THEN Space(0)
             ELSE Space(totalAddresses - allocated)

\* ---------------------------------------------- specification SpecSpace
\* CalculateAvailableSpace applied to every container of the two families,
\* with the lists of entries and with the list holding the container itself.
SpaceContainers == NetStrings(Bits) \cup Networks(WideBits) \cup {BadNet}

SpaceInputs ==
    [container   : SpaceContainers,
     allocations : ListsOf({Entry(c, NilStr) :
                               c \in Networks(Bits) \cup WideNear \cup {BadNet}})]
        \cup {[container |-> c, allocations |-> <<Entry(c, NilStr)>>] :
                 c \in SpaceContainers}

InitSpace == fin \in SpaceInputs /\ fout = NoResult /\ Quiet

CallCalculateAvailableSpace ==
    /\ fout = NoResult
    /\ fout' = CalculateAvailableSpace(fin.container, fin.allocations)
    /\ UNCHANGED <<fin, store, pc, req, attempt, sha, pend, res, plans, poolsYaml>>

NextSpace == CallCalculateAvailableSpace

SpecSpace == InitSpace /\ [][NextSpace]_vars

\* An entry lies fully inside the container: it parses, is of the
\* container's family and its first and last address are in the container.
FullyInside(container, s) ==
    /\ ParsesNet(s)
    /\ ParseNet(s).bits = container.bits
    /\ NetStart(container) <= NetStart(ParseNet(s))
    /\ NetEnd(ParseNet(s)) <= NetEnd(container)

\* Sum of the sizes of the entries of a list that lie fully inside.
RECURSIVE SizeInside(_, _, _)
SizeInside(container, allocations, i) ==
    IF i = 0
    THEN 0
    ELSE SizeInside(container, allocations, i - 1)
           + (IF FullyInside(container, allocations[i].cidr)
              THEN Pow2(ParseNet(allocations[i].cidr).bits
                          - ParseNet(allocations[i].cidr).len)
              ELSE 0)

\* C13: the available capacity is the container's address count minus the
\* sizes of the entries fully inside it, and 0 when that would be negative;
\* an entry not fully inside the container does not count.
C13_CapacityCountsInside ==
    (fout # NoResult /\ ParsesNet(fin.container))
        => LET container == ParseNet(fin.container)
               total     == Pow2(container.bits - container.len)
               inside    == SizeInside(container, fin.allocations,
                                       Len(fin.allocations))
           IN  fout = Space(IF inside > total THEN 0 ELSE total - inside)

\* C14: with no entries the capacity of a container of either width is
\* 2^(width - prefixLen), and with the container itself as the only entry
\* it is 0.
C14_CapacityEnds ==
    (fout # NoResult /\ ParsesNet(fin.container))
        => /\ fin.allocations = <<>>
                => fout = Space(Pow2(fin.container.bits - fin.container.len))
           /\ fin.allocations = <<Entry(fin.container, NilStr)>>
                => fout = Space(0)

\* On a narrow container, with narrow entries none of which encloses the
\* container, the capacity is the count of C13.
CapacityNarrowExact ==
    (/\ fout # NoResult
     /\ ParsesNet(fin.container) /\ fin.container.bits = Bits
     /\ \A i \in 1 .. Len(fin.allocations) :
           LET s == fin.allocations[i].cidr
           IN  ParsesNet(s)
                 => /\ s.bits = Bits
                    /\ ContainsNet(ParseNet(fin.container), ParseNet(s))
                          => FullyInside(ParseNet(fin.container), s))
        => LET container == ParseNet(fin.container)
               total     == Pow2(container.bits - container.len)
               inside    == SizeInside(container, fin.allocations,
                                       Len(fin.allocations))
           IN  fout = Space(IF inside > total THEN 0 ELSE total - inside)

\* ----------------------------------------------------------- ValidatePools
\* A pool definition of pools.yaml, as ValidatePools reads it.
PoolDefinition(cidrs) == [cidr |-> cidrs]

\* The orders in which a range over the Pools map can visit the pools.
PoolOrders(catalog) ==
    {o \in [1 .. Cardinality(DOMAIN catalog) -> DOMAIN catalog] : Injective(o)}

\* What the two nested loops visit, in order: per pool either the fact that
\* it has no CIDR or its CIDR strings one by one.
RECURSIVE PoolItems(_, _, _)
PoolItems(catalog, order, k) ==
    IF k > Len(order)
    THEN <<>>
    ELSE LET cidrs == catalog[order[k]].cidr
         IN  (IF Len(cidrs) = 0
              THEN <<[empty |-> TRUE, cidr |-> BadNet]>>
              ELSE [i \in 1 .. Len(cidrs) |-> [empty |-> FALSE, cidr |-> cidrs[i]]])
               \o PoolItems(catalog, order, k + 1)

\* The error the loop body returns at an item, "" when it returns none;
\* allNetworks holds the networks of the items before it.
ItemError(items, i) ==
    IF items[i].empty
    THEN "NoCIDRs"
    ELSE IF ~ParsesNet(items[i].cidr)
    THEN "InvalidFormat"
    ELSE IF \E j \in 1 .. i - 1 :
               /\ ~items[j].empty
               /\ ParsesNet(items[j].cidr)
               /\ networksOverlap(ParseNet(items[i].cidr), ParseNet(items[j].cidr))
    THEN "Overlap"
    ELSE ""

\* ValidatePools: the error of the first item that has one.  The map is
\* visited in any order, so the result is one of a set.
ValidatePools(catalog) ==
    {LET items == PoolItems(catalog, o, 1)
         bad   == {i \in 1 .. Len(items) : ItemError(items, i) # ""}
     IN  IF bad = {} THEN NoError ELSE Err(ItemError(items, FirstIndex(bad))) :
     o \in PoolOrders(catalog)}

\* ---------------------------------------------- specification SpecPools
\* ValidatePools applied to the catalogs of at most two pools.
PoolIDs == {"p1", "p2"}

PoolDefinitions ==
    {PoolDefinition(l) : l \in ListsOf(Networks(Bits) \cup WideNear \cup {BadNet})}

Catalogs == UNION {[ids -> PoolDefinitions] : ids \in SUBSET PoolIDs}

InitPools == fin \in Catalogs /\ fout = NoResult /\ Quiet

CallValidatePools ==
    /\ fout = NoResult
    /\ fout' \in ValidatePools(fin)
    /\ UNCHANGED <<fin, store, pc, req, attempt, sha, pend, res, plans, poolsYaml>>

NextPools == CallValidatePools

SpecPools == InitPools /\ [][NextPools]_vars

\* The ranges of a catalog, each with its pool and its place in the pool.
Ranges(catalog) ==
    {m \in [pool : DOMAIN catalog, idx : 1 .. MaxExisting] :
        m.idx <= Len(catalog[m.pool].cidr)}

RangeAt(catalog, m) == catalog[m.pool].cidr[m.idx]

\* Every pool has a range, every range parses and every two distinct ranges
\* of the catalog are disjoint.
WellFormed(catalog) ==
    /\ \A p \in DOMAIN catalog : Len(catalog[p].cidr) >= 1
    /\ \A m \in Ranges(catalog) : ParsesNet(RangeAt(catalog, m))
    /\ \A m, n \in Ranges(catalog) :
          m # n => ~NetsShare(ParseNet(RangeAt(catalog, m)),
                              ParseNet(RangeAt(catalog, n)))

\* C15: ValidatePools succeeds exactly when every pool has at least one
\* range, every range parses and every two distinct ranges, within a pool or
\* across pools, are disjoint; the empty catalog validates.
C15_ValidateIffWellFormed ==
    fout # NoResult => ((fout = NoError) <=> WellFormed(fin))

\* For catalogs whose parsable ranges are all narrow, ValidatePools succeeds
\* exactly on the well-formed ones.
PoolsNarrowExact ==
    (/\ fout # NoResult
     /\ \A m \in Ranges(fin) :
           ParsesNet(RangeAt(fin, m)) => RangeAt(fin, m).bits = Bits)
        => ((fout = NoError) <=> WellFormed(fin))

\* ------------------------------------------------ retries of the handlers
\* The conditional write of client c is refused for a version mismatch.
Conflicted(c) == pc[c] = "write" /\ ~Accepts(store, sha[c])

\* C16: a handler starts a further attempt only after the conditional write
\* of its current attempt was refused with Conflict; a read error, an error
\* of the attempt's decision and a write error that is not a conflict make
\* the handler return that error at once, with the store untouched.
C16_Step ==
    \A c \in Clients :
        /\ attempt'[c] > attempt[c]
              => Conflicted(c) /\ attempt'[c] = attempt[c] + 1 /\ pc'[c] = "run"
        /\ (pc[c] # "run" /\ pc'[c] = "run")
              => \/ pc[c] = "idle" /\ attempt'[c] = 0
                 \/ Conflicted(c) /\ attempt'[c] = attempt[c] + 1
        /\ (pc[c] = "write" /\ ~Conflicted(c) /\ pc'[c] # "write")
              => Returns(c)
        /\ (Returns(c) /\ res'[c].status = "error")
              => /\ store' = store
                 /\ pc[c] = "run"
                       => \/ res'[c].err = "ReadFailed"
                          \/ \E o \in Attempts(store.db, req[c]) :
                                ~o.write /\ o.err = res'[c].err
                 /\ res'[c].err \in {"Cancelled", "MaxRetriesExceeded"}
                       => Conflicted(c)

FnReturns == [shouldRetry : BOOLEAN, failed : BOOLEAN]

\* The function under retry, as what it returns at its 1st, 2nd, ...
\* invocation, and the configured MaxRetries.
RetryInputs ==
    [maxRetries : 0 .. MaxRetries,
     fn         : [1 .. MaxRetries + 2 -> FnReturns]]

\* WithRetry in progress: where it stands ("loop" at the loop condition,
\* "wait" in the select, "returned"), the loop variable, the attempt numbers
\* the function was invoked with so far, and the error returned.
Running(phase, n, calls, err) ==
    [kind |-> "retry", phase |-> phase, attempt |-> n, calls |-> calls, err |-> err]

InitRetry ==
    /\ fin \in RetryInputs
    /\ fout = Running("loop", 0, <<>>, "none")
    /\ Quiet

\* The loop condition attempt <= config.MaxRetries.
InLoopOneMore(n, maxRetries) == n <= maxRetries + 1
InLoop(n, maxRetries) == n <= maxRetries

\* One pass of the loop body up to the return, the select or the increment.
Invoke ==
    /\ fout.phase = "loop"
    /\ InLoop(fout.attempt, fin.maxRetries)
    /\ LET r     == fin.fn[Len(fout.calls) + 1]
           calls == Append(fout.calls, fout.attempt)
       IN  fout' = IF ~r.failed
                   THEN Running("returned", fout.attempt, calls, "nil")
                   ELSE IF ~r.shouldRetry
                   THEN Running("returned", fout.attempt, calls, "fn")
                   ELSE IF fout.attempt < fin.maxRetries
                   THEN Running("wait", fout.attempt, calls, "none")
                   ELSE Running("loop", fout.attempt + 1, calls, "none")
    /\ UNCHANGED <<fin, store, pc, req, attempt, sha, pend, res, plans, poolsYaml>>

\* The select: the backoff elapses and the loop continues.
BackoffElapsed ==
    /\ fout.phase = "wait"
    /\ fout' = Running("loop", fout.attempt + 1, fout.calls, "none")
    /\ UNCHANGED <<fin, store, pc, req, attempt, sha, pend, res, plans, poolsYaml>>

\* The select: the context is done first and WithRetry returns ctx.Err().
ContextDone ==
    /\ fout.phase = "wait"
    /\ fout' = Running("returned", fout.attempt, fout.calls, "ctx")
    /\ UNCHANGED <<fin, store, pc, req, attempt, sha, pend, res, plans, poolsYaml>>

\* The loop is left: "exceeded max retries".
Exceeded ==
    /\ fout.phase = "loop"
    /\ ~InLoop(fout.attempt, fin.maxRetries)
    /\ fout' = Running("returned", fout.attempt, fout.calls, "exceeded")
    /\ UNCHANGED <<fin, store, pc, req, attempt, sha, pend, res, plans, poolsYaml>>

NextRetry == Invoke \/ BackoffElapsed \/ ContextDone \/ Exceeded

SpecRetry == InitRetry /\ [][NextRetry]_vars

\* The i-th invocation failed with an error marked retryable.
Retryable(i) == fin.fn[i].failed /\ fin.fn[i].shouldRetry

\* Every invocation made so far failed with an error marked retryable.
AllRetryable == \A i \in 1 .. Len(fout.calls) : Retryable(i)

\* The invocations are numbered 0, 1, 2, ..., there are at most
\* MaxRetries+1 of them, only the last can be one that returned no error or
\* an error not marked retryable, and until it has returned WithRetry can
\* take a step.
RetryDiscipline ==
    /\ \A i \in 1 .. Len(fout.calls) : fout.calls[i] = i - 1
    /\ Len(fout.calls) <= fin.maxRetries + 1
    /\ \A i \in 1 .. Len(fout.calls) - 1 : Retryable(i)
    /\ (fout.phase # "returned" /\ Len(fout.calls) > 0)
          => Retryable(Len(fout.calls))
    /\ fout.phase # "returned" => ENABLED NextRetry
    /\ fout.phase = "returned"
          => \/ fout.err = "nil" /\ ~fin.fn[Len(fout.calls)].failed
             \/ fout.err # "nil" /\ Len(fout.calls) > 0
                   /\ fin.fn[Len(fout.calls)].failed

\* C17 as stated: ..., and when every attempt fails with a retryable error
\* WithRetry returns an error after exactly MaxRetries+1 invocations.
C17_AsStated ==
    /\ RetryDiscipline
    /\ (fout.phase = "returned" /\ AllRetryable)
          => fout.err # "nil" /\ Len(fout.calls) = fin.maxRetries + 1

\* C17, amended: the invocations are numbered 0, 1, 2, ... in order, at most
\* MaxRetries+1 are made, none after one that returned no error or an error
\* not marked retryable, and WithRetry returns; when every attempt fails
\* with a retryable error it returns an error, after exactly MaxRetries+1
\* invocations unless the context is done during a backoff wait, in which
\* case it returns the context's error without a further invocation.
C17_RetryBounded ==
    /\ RetryDiscipline
    /\ (fout.phase = "returned" /\ AllRetryable)
          => /\ fout.err \in {"exceeded", "ctx"}
             /\ fout.err = "exceeded" => Len(fout.calls) = fin.maxRetries + 1
             /\ fout.err = "ctx" => Len(fout.calls) <= fin.maxRetries

\* C17 witness: every one of the MaxRetries+1 attempts failed with a
\* retryable error and WithRetry has returned "exceeded max retries".
C17_Witness ==
    /\ fout.kind = "retry" /\ fout.phase = "returned" /\ fout.err = "exceeded"
    /\ fin.maxRetries >= 1
    /\ Len(fout.calls) = fin.maxRetries + 1
    /\ AllRetryable

\* --------------------------------------------- snapshot of every attempt
\* The pending write was decided, for the request, on the tagged ledger.
DecidedOnTagged(request, tagged, pending) ==
    \E o \in Attempts(tagged.db, request) :
        o.write /\ Pending(o.db, o.cidr) = pending

\* C18: every conditional write carries the version tag that the ledger
\* read of the same attempt returned, with the decision computed from that
\* read; after a Conflict nothing of the attempt is kept and the next
\* attempt reads the ledger again before it decides; the ledger is only ever
\* replaced by a decision computed from the ledger being replaced.
C18_Step ==
    /\ \A c \in Clients :
          /\ pc'[c] = "write" => pc[c] \in {"run", "write"}
          /\ (pc[c] = "run" /\ pc'[c] = "write")
                => /\ sha'[c] = store /\ req'[c] = req[c]
                   /\ DecidedOnTagged(req[c], store, pend'[c])
          /\ (pc[c] = "write" /\ pc'[c] = "write")
                => sha'[c] = sha[c] /\ pend'[c] = pend[c] /\ req'[c] = req[c]
          /\ (pc[c] = "write" /\ pc'[c] = "run")
                => sha'[c] = NoFile /\ pend'[c] = NoPending /\ store' = store
    /\ store' # store
          => \E c \in Clients :
                /\ pc[c] = "write" /\ Returns(c)
                /\ store' = File(pend[c].db)
                /\ store = sha[c]

C18_FreshSnapshot == [][C18_Step]_vars

\* C18 witness: after a Conflict a handler is in a further attempt and about
\* to write, carrying the tag of the ledger as another client's write left
\* it.
C18_Witness ==
    \E c \in Clients :
        /\ attempt[c] > 0 /\ pc[c] = "write"
        /\ sha[c] = store /\ store.exists /\ store.db # EmptyDB

\* ------------------------------------------- specification SpecPair
\* Two clients each run one Create, of differently named top-level
\* allocations from the pool, which has room for both.  Reads succeed, no
\* write is lost in transit and no context is cancelled: a write fails only
\* when the store refuses it for a version mismatch.
PairConfigurations ==
    {cfg \in Configurations :
        /\ Cardinality(cfg) = 2
        /\ \A d \in cfg : d.parent = NilStr /\ d.contig = NilStr
        /\ \A d, e \in cfg : d # e => d.name # e.name}

InitPair ==
    /\ plans \in PairConfigurations
    /\ store \in {NoFile, File(EmptyDB)}
    /\ poolsYaml = PoolCatalog
    /\ Idle
    /\ fin = NoInput /\ fout = NoResult

\* The resource each client creates.
NameOf(c) == IF c = 1 THEN "a" ELSE "b"

\* Terraform calls Create once per resource.
BeginCreate(c) ==
    /\ pc[c] = "idle"
    /\ res[c] = NoOutcome
    /\ \E r \in CreateRequests :
          /\ r.name = NameOf(c)
          /\ req' = [req EXCEPT ![c] = r]
    /\ pc' = [pc EXCEPT ![c] = "run"]
    /\ UNCHANGED <<store, attempt, sha, pend, res, fin, fout, plans, poolsYaml>>

\* The store answers 409 and no context is cancelled during the backoff.
ConflictRetry(c) == WriteConflict(c) /\ res'[c].err # "Cancelled"

PairStep(c) ==
    \/ BeginCreate(c)
    \/ Attempt(c)
    \/ WriteOk(c)
    \/ ConflictRetry(c)
    \/ WriteRejected(c)

NextPair == \E c \in Clients : PairStep(c)

\* Each handler runs in its own Terraform process and keeps running until
\* it returns.
SpecPair ==
    InitPair /\ [][NextPair]_vars /\ \A c \in Clients : WF_vars(PairStep(c))

\* Both Creates have returned success.
BothCreated == \A c \in Clients : res[c].kind = "create" /\ res[c].status = "ok"

BothSucceedOnExistingFile == store.exists => <>BothCreated

\* When the ledger file does not exist at the start, a Create fails only by
\* the refusal of its CreateFile.
PairFailsOnlyRejected ==
    \A c \in Clients : res[c].status = "error" => res[c].err = "WriteRejected"

\* ------------------------------------------- Update on the dated ledger
\* The handlers never read the creation time of an entry, and the ledger of
\* the specifications above leaves it out.  Here every entry carries it
\* (created_at), and AddAllocation's stamp is applied.
MaxTime == 2

Times == 0 .. MaxTime

Dated(alloc, t) == [created |-> t] @@ alloc

\* AddAllocation, line 476: the entry being appended to the pool's list gets
\* the current time as its CreatedAt.
StampAppended(db, poolID, now) ==
    [db EXCEPT ![poolID] = [@ EXCEPT ![Len(@)] = [@ EXCEPT !.created = now]]]

\* The attempt of Update at time now: the entry found is changed, removed
\* and added again, AddAllocation stamping what it adds.
UpdateAttemptAt(db, plan, now) ==
    {IF o.write
     THEN WriteBack(StampAppended(o.db, m.pool, now), o.cidr)
     ELSE o :
        o \in UpdateAttempt(db, plan), m \in FindAllocationByID(db, plan.id)}
      \cup {o \in UpdateAttempt(db, plan) : FindAllocationByID(db, plan.id) = {}}

\* ------------------------------------------- specification SpecUpdate
\* The entries a ledger can hold for the resource named n at its creation:
\* its block is the lower or the upper half of the pool.
DatedEntries(n) ==
    {Dated(Allocation([ip |-> IF n = "a" THEN 0 ELSE BlockSize(Bits - 1),
                        len |-> Bits - 1],
                       AllocationID("p1", NilStr, n, Bits - 1), name, NilStr,
                       reserved, cw), t) :
        name \in Names, reserved \in BOOLEAN, cw \in {NilStr, Anchor}, t \in Times}

\* Ledgers of one pool with one or two entries, of different ids and names,
\* created in the order of the list.
DatedLists ==
    {<<e>> : e \in DatedEntries("a")}
        \cup {l \in {<<e, f>> : e \in DatedEntries("a") \cup DatedEntries("b"),
                                f \in DatedEntries("a") \cup DatedEntries("b")} :
                 /\ l[1].id # l[2].id
                 /\ l[1].name # l[2].name
                 /\ l[1].created <= l[2].created}

DatedLedgers == {[p \in {"p1"} |-> l] : l \in DatedLists}

\* Update is called for the resource with a key, with a planned name and
\* status, at a time not before the creation of any entry.
UpdateInputs ==
    {x \in [db : DatedLedgers, name : Names,
            status : {"null", "allocation", "reservation"}, key : Names,
            now : Times] :
        \A k \in 1 .. Len(x.db["p1"]) : x.db["p1"][k].created <= x.now}

\* The plan of the Update: id from the state, name and status as planned.
UpdatePlan(x) ==
    Request("update", "", NilStr, x.name, 0, NilStr, x.status,
            AllocationID("p1", NilStr, x.key, Bits - 1), BadCIDR)

InitUpdate == fin \in UpdateInputs /\ fout = NoResult /\ Quiet

CallUpdate ==
    /\ fout = NoResult
    /\ fout' \in UpdateAttemptAt(fin.db, UpdatePlan(fin), fin.now)
    /\ UNCHANGED <<fin, store, pc, req, attempt, sha, pend, res, plans, poolsYaml>>

NextUpdate == CallUpdate

SpecUpdate == InitUpdate /\ [][NextUpdate]_vars

\* The entries of a ledger other than the one with the id, per pool and in
\* the order of the lists.
Others(db, id) == [p \in DOMAIN db |-> SelectSeq(db[p], LAMBDA a : a.id # id)]

\* The Update has decided to write.
Updated == fout # NoResult /\ fout.write

\* C20: a successful Update leaves the entry its id, block, parent
\* reference, adjacency reference, pool and creation time, and leaves every
\* other entry of the ledger as it was.
C20_UpdateFrame ==
    Updated
        => /\ Others(fout.db, UpdatePlan(fin).id) = Others(fin.db, UpdatePlan(fin).id)
           /\ \A m \in FindAllocationByID(fin.db, UpdatePlan(fin).id) :
                 \E n \in FindAllocationByID(fout.db, UpdatePlan(fin).id) :
                    /\ n.pool = m.pool
                    /\ At(fout.db, n).id = At(fin.db, m).id
                    /\ At(fout.db, n).cidr = At(fin.db, m).cidr
                    /\ At(fout.db, n).parent = At(fin.db, m).parent
                    /\ At(fout.db, n).contig = At(fin.db, m).contig
                    /\ At(fout.db, n).created = At(fin.db, m).created

\* A successful Update leaves the entry its id, block, parent reference,
\* adjacency reference and pool, sets its name and status as planned, and
\* leaves every other entry as it was.
UpdateKeepsIdentity ==
    Updated
        => /\ Others(fout.db, UpdatePlan(fin).id) = Others(fin.db, UpdatePlan(fin).id)
           /\ \A m \in FindAllocationByID(fin.db, UpdatePlan(fin).id) :
                 \E n \in FindAllocationByID(fout.db, UpdatePlan(fin).id) :
                    /\ n.pool = m.pool
                    /\ At(fout.db, n).id = At(fin.db, m).id
                    /\ At(fout.db, n).cidr = At(fin.db, m).cidr
                    /\ At(fout.db, n).parent = At(fin.db, m).parent
                    /\ At(fout.db, n).contig = At(fin.db, m).contig
                    /\ At(fout.db, n).name = fin.name
                    /\ At(fout.db, n).created = fin.now

\* ------------------------------------------------------ parent references
\* Every entry that names a parent has an entry whose block is that parent.
ParentsExist(db) ==
    \A m \in Positions(db) :
        At(db, m).parent # NilStr
            => \E n \in Positions(db) : At(db, n).cidr = At(db, m).parent

\* Another entry of the ledger names the block of the entry with this id as
\* its parent.
ReferencedByOther(db, id) ==
    \E m, n \in Positions(db) :
        /\ At(db, m).id = id
        /\ At(db, n).id # id
        /\ At(db, n).parent = At(db, m).cidr

\* C21: every entry that carries a parent reference has an entry whose block
\* equals the reference, and an attempt of Delete on an entry that other
\* entries reference as their parent returns an error and leaves the ledger
\* unchanged.
C21_Step ==
    /\ ParentsExist(store'.db)
    /\ \A c \in Clients :
          (/\ pc[c] = "run" /\ pc'[c] # "run"
           /\ req[c].kind = "delete"
           /\ ReferencedByOther(store.db, req[c].id))
              => Returns(c) /\ res'[c].status = "error" /\ store' = store

TopLevel(status) ==
    [name |-> "a", mask |-> Bits - 1, status |-> status,
     parent |-> NilStr, contig |-> NilStr]

ReserveConfigurations ==
    {{TopLevel("allocation"), TopLevel("reservation"), d} :
        d \in {x \in Declarations : /\ x.name = "b" /\ x.status = "allocation"
                                     /\ x.parent = Anchor /\ x.contig = NilStr}}

InitReserve ==
    /\ plans \in ReserveConfigurations
    /\ store \in {NoFile, File(EmptyDB)}
    /\ poolsYaml = PoolCatalog
    /\ Idle
    /\ fin = NoInput /\ fout = NoResult

SpecReserve == InitReserve /\ [][Next]_vars

\* C22: no entry of the ledger whose reserved flag is set has its block named
\* as parent by another entry.
C22_NoReservedParent ==
    \A m, n \in Positions(store.db) :
        (m # n /\ At(store.db, m).reserved)
            => At(store.db, n).parent # At(store.db, m).cidr

\* Create alone keeps it: an attempt of Create never adds an entry under a
\* parent whose reserved flag is set in the ledger the attempt read.
CreateRefusesReservedParent ==
    [][\A c \in Clients :
          (/\ pc[c] = "run" /\ pc'[c] = "write"
           /\ req[c].kind = "create" /\ req[c].parent # NilStr)
              => \A m \in Positions(store.db) :
                    At(store.db, m).cidr = req[c].parent
                        => ~At(store.db, m).reserved]_vars

\* ------------------------------------------ specification SpecCatalog
\* pools.yaml holds two pools, each of one range of four addresses.  Clients
\* create, update and delete top-level allocations in both pools and delete
\* the pools.
PoolPair ==
    [p \in PoolIDs |->
        [cidr |-> <<[ip |-> IF p = "p1" THEN 0 ELSE 4, len |-> Bits - 2]>>,
         reserved |-> FALSE]]

\* PoolsConfig.RemovePool: an error when the pool is not in the map.
RemovePool(pools, poolID) ==
    IF poolID \notin DOMAIN pools
    THEN [err |-> TRUE, pools |-> pools]
    ELSE [err |-> FALSE, pools |-> [p \in DOMAIN pools \ {poolID} |-> pools[p]]]

\* The resources declared: allocations of one address, "a" in either pool and
\* "b" in the second pool.
PooledDeclarations ==
    {d \in [name : Names, pool : PoolIDs, status : {"allocation"}] :
        d.name = "a" \/ d.pool = "p2"}

PooledCreateRequests ==
    {Request("create", d.pool, NilStr, d.name, Bits, NilStr, d.status,
             AllocationID(d.pool, NilStr, d.name, Bits), BadCIDR) : d \in plans}

PoolDeleteRequests ==
    {Request("deletepool", p, NilStr, "", 0, NilStr, "null", NoID, BadCIDR) :
        p \in PoolIDs}

\* What the attempt of a pool Delete read and is about to write: the content
\* of pools.yaml (its tag is the hash of the content).
PoolsRead(pools) == [exists |-> TRUE, db |-> EmptyDB, pools |-> pools]
PoolsPending(pools) == [db |-> EmptyDB, cidr |-> BadCIDR, pools |-> pools]

InitCatalog ==
    /\ plans = PooledDeclarations
    /\ store \in {NoFile, File(EmptyDB)}
    /\ poolsYaml = PoolPair
    /\ Idle
    /\ fin = NoInput /\ fout = NoResult

\* Terraform calls an allocation handler.
BeginPooled(c) ==
    /\ pc[c] = "idle"
    /\ \E r \in PooledCreateRequests \cup UpdateRequests(store.db)
                    \cup DeleteRequests(store.db) :
          req' = [req EXCEPT ![c] = r]
    /\ pc' = [pc EXCEPT ![c] = "run"]
    /\ res' = [res EXCEPT ![c] = NoOutcome]
    /\ UNCHANGED <<store, attempt, sha, pend, fin, fout, plans, poolsYaml>>

\* Terraform calls PoolResource.Delete.
BeginPoolDelete(c) ==
    /\ pc[c] = "idle"
    /\ \E r \in PoolDeleteRequests : req' = [req EXCEPT ![c] = r]
    /\ pc' = [pc EXCEPT ![c] = "runPool"]
    /\ res' = [res EXCEPT ![c] = NoOutcome]
    /\ UNCHANGED <<store, attempt, sha, pend, fin, fout, plans, poolsYaml>>

\* One attempt of the pool Delete up to its return or its write:
\* GetPoolsWithSHA, the pool is looked up, GetAllocations, the pool's
\* allocations are counted, RemovePool.
PoolDeleteAttempt(c) ==
    /\ pc[c] = "runPool"
    /\ IF req[c].pool \notin DOMAIN poolsYaml
       THEN Finish(c, Success(req[c], BadCIDR))
       ELSE IF Len(GetAllocationsForPool(store.db, req[c].pool)) > 0
       THEN Finish(c, Failure(req[c], "HasAllocations"))
       ELSE LET removed == RemovePool(poolsYaml, req[c].pool)
            IN  IF removed.err
                THEN Finish(c, Failure(req[c], "RemoveFailed"))
                ELSE /\ pc' = [pc EXCEPT ![c] = "writePool"]
                     /\ sha' = [sha EXCEPT ![c] = PoolsRead(poolsYaml)]
                     /\ pend' = [pend EXCEPT ![c] = PoolsPending(removed.pools)]
                     /\ UNCHANGED <<req, attempt, res>>
    /\ UNCHANGED <<store, fin, fout, plans, poolsYaml>>

\* A read of the pool Delete fails: the error is returned, not retried.
PoolReadFails(c) ==
    /\ pc[c] = "runPool"
    /\ Finish(c, Failure(req[c], "ReadFailed"))
    /\ UNCHANGED <<store, fin, fout, plans, poolsYaml>>

\* UpdatePools: UpdateFile of pools.yaml with the tag read; accepted when the
\* file still has that tag.
PoolWriteOk(c) ==
    /\ pc[c] = "writePool"
    /\ sha[c].pools = poolsYaml
    /\ poolsYaml' = pend[c].pools
    /\ Finish(c, Success(req[c], BadCIDR))
    /\ UNCHANGED <<store, fin, fout, plans>>

\* pools.yaml changed since it was read: 409, and WithRetry runs the attempt
\* again or gives up.
PoolWriteConflict(c) ==
    /\ pc[c] = "writePool"
    /\ sha[c].pools # poolsYaml
    /\ IF attempt[c] < MaxRetries
       THEN \/ /\ pc' = [pc EXCEPT ![c] = "runPool"]
               /\ attempt' = [attempt EXCEPT ![c] = @ + 1]
               /\ sha' = [sha EXCEPT ![c] = NoFile]
               /\ pend' = [pend EXCEPT ![c] = NoPending]
               /\ UNCHANGED <<req, res>>
            \/ Finish(c, Failure(req[c], "Cancelled"))
       ELSE Finish(c, Failure(req[c], "MaxRetriesExceeded"))
    /\ UNCHANGED <<store, fin, fout, plans, poolsYaml>>

\* The write of pools.yaml fails otherwise: the error is returned.
PoolWriteFails(c) ==
    /\ pc[c] = "writePool"
    /\ Finish(c, Failure(req[c], "WriteFailed"))
    /\ UNCHANGED <<store, fin, fout, plans, poolsYaml>>

NextCatalog ==
    \E c \in Clients :
        \/ BeginPooled(c)
        \/ ReadFails(c)
        \/ Attempt(c)
        \/ WriteOk(c)
        \/ WriteConflict(c)
        \/ WriteRejected(c)
        \/ WriteFails(c)
        \/ BeginPoolDelete(c)
        \/ PoolReadFails(c)
        \/ PoolDeleteAttempt(c)
        \/ PoolWriteOk(c)
        \/ PoolWriteConflict(c)
        \/ PoolWriteFails(c)

SpecCatalog == InitCatalog /\ [][NextCatalog]_vars

\* C27: the ledger never holds an allocation under a pool id that is absent
\* from the catalog.
C27_NoAllocationWithoutPool ==
    \A p \in DOMAIN store.db :
        Len(store.db[p]) > 0 => p \in DOMAIN poolsYaml

\* Without the race the check of the pool Delete is enough: an attempt of the
\* pool Delete that reads a ledger with allocations of the pool fails.
PoolDeleteSeesAllocations ==
    [][\A c \in Clients :
          (/\ pc[c] = "runPool" /\ pc'[c] = "writePool")
              => Len(GetAllocationsForPool(store.db, req[c].pool)) = 0]_vars

\* C23: no two entries of the ledger, of one pool or of two, have the same
\* name.
C23_UniqueNames ==
    \A m, n \in Positions(store.db) :
        m # n => At(store.db, m).name # At(store.db, n).name

\* C23 witness: the ledger holds entries in two pools, and a Create has been
\* refused because its name was taken.
C23_Witness ==
    /\ \E m, n \in Positions(store.db) : m.pool # n.pool
    /\ \E c \in Clients : res[c].kind = "create" /\ res[c].err = "NameExists"

\* ------------------------------------------- specification SpecPoolFind
\* FindNextAvailableInPool applied to pools made of two ranges of four
\* addresses, in either order or alone, to lists of entries with and without
\* parent_cidr that lie in the ranges, and to every prefix length.
LowRange == [ip |-> 0, len |-> Bits - 2]
HighRange == [ip |-> BlockSize(Bits - 2), len |-> Bits - 2]

BlocksInRanges ==
    {c \in Canonical : c.len >= Bits - 2 /\ RangeEnd(c) <= RangeEnd(HighRange)}

PoolFindInputs ==
    [pool      : {<<LowRange>>, <<HighRange>>, <<LowRange, HighRange>>,
                  <<HighRange, LowRange>>},
     existing  : EntryLists({Entry(c, par) : c \in BlocksInRanges \cup {BadCIDR},
                                             par \in {NilStr, ChildMark}}),
     prefixLen : 0 .. Bits + 1]

InitPoolFind == fin \in PoolFindInputs /\ fout = NoResult /\ Quiet

CallFindNextInPool ==
    /\ fout = NoResult
    /\ fout' \in FindNextAvailableInPool(fin.pool, fin.existing, fin.prefixLen)
    /\ UNCHANGED <<fin, store, pc, req, attempt, sha, pend, res, plans, poolsYaml>>

NextPoolFind == CallFindNextInPool

SpecPoolFind == InitPoolFind /\ [][NextPoolFind]_vars

\* The entries without a parent reference, in order.
WithoutParent(existing) == SelectSeq(existing, LAMBDA a : a.parent = NilStr)

\* The results the single-range search can produce in the i-th range of the
\* pool, given the entries without a parent reference.
InRange(i) ==
    findNextInCIDR(fin.pool[i], WithoutParent(fin.existing), fin.prefixLen)

\* The search in the i-th range can return an error.
RangeFails(i) == \E r \in InRange(i) : r.kind \notin {"ok", "panic"}

\* What ends the pool-level search in a range: a block, or a run-time panic
\* of the single-range search, which ends the process.
FromFirstRange ==
    \E i \in 1 .. Len(fin.pool) :
        /\ fout \in InRange(i)
        /\ \A j \in 1 .. i - 1 : RangeFails(j)

\* C24: a block returned by the pool-level search is the block the
\* single-range search finds in the first range, in listed order, whose
\* search succeeds; the pool-level search returns an error only when the
\* single-range search returns an error in every range; the entries with a
\* parent reference never affect the result.
C24_FirstRangeThatSucceeds ==
    fout # NoResult =>
        /\ FindNextAvailableInPool(fin.pool, fin.existing, fin.prefixLen)
              = FindNextAvailableInPool(fin.pool, WithoutParent(fin.existing),
                                        fin.prefixLen)
        /\ fout.kind \in {"ok", "panic"} => FromFirstRange
        /\ fout.kind \notin {"ok", "panic"} =>
              \A i \in 1 .. Len(fin.pool) : RangeFails(i)

\* C24 witness: the block returned comes from the second range, the search
\* in the first range fails, and the list holds an entry with a parent
\* reference that shares addresses with the block returned.
C24_Witness ==
    /\ fout.kind = "ok"
    /\ Len(fin.pool) = 2
    /\ fout \notin InRange(1)
    /\ fout \in InRange(2)
    /\ \E k \in 1 .. Len(fin.existing) :
          /\ fin.existing[k].parent # NilStr
          /\ ParseOK(fin.existing[k].cidr)
          /\ SharesAddress(ParseCIDR(fin.existing[k].cidr), fout.cidr)

\* ------------------------------------------- specification SpecBackoff
\* Durations are counted in units of the smallest base delay; the jitter
\* fraction is a number of PctDen-ths, and rand.Float64() draws one of the
\* values 0, 1/JitterDraws, .., (JitterDraws - 1)/JitterDraws.  A delay is
\* reported in ticks of 1/(JitterDraws * PctDen) unit, in which every value
\* computed is whole.
MaxAttempt == 4
MaxBaseDelay == 2
MaxMaxDelay == 4
PctDen == 2
JitterDraws == 4

TicksPerUnit == JitterDraws * PctDen

RetryConfig(baseDelay, maxDelay, jitterPct) ==
    [BaseDelay |-> baseDelay, MaxDelay |-> maxDelay, JitterPct |-> jitterPct]

\* CalculateBackoff: BaseDelay * 2^attempt, capped at MaxDelay, then the
\* jitter (rand * 2 - 1) * backoff * JitterPct added, BaseDelay if the sum is
\* negative.
CalculateBackoff(c, n, draw) ==
    LET raw     == c.BaseDelay * Pow2(n)
        backoff == IF raw > c.MaxDelay THEN c.MaxDelay ELSE raw
        jitter  == IF c.JitterPct > 0
                   THEN (2 * draw - JitterDraws) * backoff * c.JitterPct
                   ELSE 0
        total   == backoff * TicksPerUnit + jitter
    IN  IF total < 0 THEN c.BaseDelay * TicksPerUnit ELSE total

BackoffInputs ==
    [config  : {RetryConfig(b, m, j) : b \in 0 .. MaxBaseDelay,
                                       m \in 1 .. MaxMaxDelay,
                                       j \in 0 .. PctDen},
     attempt : 0 .. MaxAttempt,
     draw    : 0 .. JitterDraws - 1]

Delay(ticks) == [kind |-> "delay", value |-> ticks]

InitBackoff == fin \in BackoffInputs /\ fout = NoResult /\ Quiet

CallCalculateBackoff ==
    /\ fout = NoResult
    /\ fout' = Delay(CalculateBackoff(fin.config, fin.attempt, fin.draw))
    /\ UNCHANGED <<fin, store, pc, req, attempt, sha, pend, res, plans, poolsYaml>>

NextBackoff == CallCalculateBackoff

SpecBackoff == InitBackoff /\ [][NextBackoff]_vars

\* C25: for every attempt number and every jitter draw the delay computed is
\* at most the configured maximum delay.
C25_DelayAtMostMax ==
    fout.kind = "delay" => fout.value <= fin.config.MaxDelay * TicksPerUnit

\* The delay is at most the maximum delay increased by the jitter fraction,
\* and at most the maximum delay when the jitter fraction is zero.
DelayAtMostMaxPlusJitter ==
    fout.kind = "delay" =>
        fout.value * PctDen
            <= fin.config.MaxDelay * TicksPerUnit * (PctDen + fin.config.JitterPct)

\* -------------------------------------------- specification SpecRemove
\* RemoveAllocation applied to ledgers of at most two pools, whose lists
\* hold at most MaxExisting entries with one of two ids, to either pool and
\* either id.
RemoveIDs == {"x", "y"}

RemoveEntries == [id : RemoveIDs, cidr : {LowRange, HighRange}]

RemoveLedgers ==
    UNION {[S -> ListsOf(RemoveEntries)] : S \in SUBSET PoolIDs}

RemoveInputs == [db : RemoveLedgers, pool : PoolIDs, id : RemoveIDs]

Removed(r) == [kind |-> "removed", err |-> r.err, db |-> r.db]

InitRemove == fin \in RemoveInputs /\ fout = NoResult /\ Quiet

CallRemoveAllocation ==
    /\ fout = NoResult
    /\ fout' = Removed(RemoveAllocation(fin.db, fin.pool, fin.id))
    /\ UNCHANGED <<fin, store, pc, req, attempt, sha, pend, res, plans, poolsYaml>>

NextRemove == CallRemoveAllocation

SpecRemove == InitRemove /\ [][NextRemove]_vars

\* The pool has a list and the list holds an entry with the id.
Holds(db, poolID, id) ==
    poolID \in DOMAIN db /\ \E i \in 1 .. Len(db[poolID]) : db[poolID][i].id = id

\* The list is the given one without the entries that have the id, the
\* others in their order: its k-th entry is the k-th kept entry.
IsListWithout(out, list, id) ==
    LET kept == {i \in 1 .. Len(list) : list[i].id # id}
    IN  /\ Len(out) = Cardinality(kept)
        /\ \A k \in 1 .. Len(out) :
              \E i \in kept :
                  /\ Cardinality({j \in kept : j <= i}) = k
                  /\ out[k] = list[i]

\* C26: RemoveAllocation(poolID, id) fails and leaves the whole ledger
\* unchanged when the pool has no list or its list holds no entry with the
\* id, even when another pool holds one; otherwise it removes the entries
\* with the id from that pool's list only and keeps every other entry of
\* every pool in its order.
C26_RemoveFromOnePool ==
    fout.kind = "removed" =>
        IF Holds(fin.db, fin.pool, fin.id)
        THEN /\ ~fout.err
             /\ DOMAIN fout.db = DOMAIN fin.db
             /\ \A p \in DOMAIN fin.db \ {fin.pool} : fout.db[p] = fin.db[p]
             /\ IsListWithout(fout.db[fin.pool], fin.db[fin.pool], fin.id)
        ELSE fout.err /\ fout.db = fin.db

\* C26 witness: the entry is removed from a list that keeps another entry,
\* while the other pool holds an entry with the same id, which stays.
C26_Witness ==
    /\ fout.kind = "removed"
    /\ ~fout.err
    /\ Len(fout.db[fin.pool]) > 0
    /\ \E p \in DOMAIN fin.db \ {fin.pool} : Holds(fout.db, p, fin.id)

\* ------------------------------------------------------- deleting a leaf
\* C28: an attempt of Delete on an entry of the ledger that no other entry
\* names as its parent goes on to write the ledger without exactly that
\* entry, unless a read of the store fails.
C28_Step ==
    \A c \in Clients :
        (/\ pc[c] = "run" /\ pc'[c] # "run"
         /\ req[c].kind = "delete"
         /\ \E m \in Positions(store.db) : At(store.db, m).id = req[c].id
         /\ ~ReferencedByOther(store.db, req[c].id))
            => \/ Returns(c) /\ res'[c].err = "ReadFailed"
               \/ /\ pc'[c] = "write"
                  /\ DOMAIN pend'[c].db = DOMAIN store.db
                  /\ \A p \in DOMAIN store.db :
                        IsListWithout(pend'[c].db[p], store.db[p], req[c].id)

C28_LeafDeleteSucceeds == [][C28_Step]_vars

\* The same for every entry whose block is not also named as parent by the
\* entry itself: there the Delete goes on to the write.
LeafDeleteUnlessOwnParent ==
    [][\A c \in Clients :
          (/\ pc[c] = "run" /\ pc'[c] # "run"
           /\ req[c].kind = "delete"
           /\ \E m \in Positions(store.db) :
                 /\ At(store.db, m).id = req[c].id
                 /\ At(store.db, m).cidr = req[c].cidr
           /\ \A n \in Positions(store.db) : At(store.db, n).parent # req[c].cidr)
              => \/ Returns(c) /\ res'[c].err = "ReadFailed"
                 \/ /\ pc'[c] = "write"
                    /\ DOMAIN pend'[c].db = DOMAIN store.db
                    /\ \A p \in DOMAIN store.db :
                          IsListWithout(pend'[c].db[p], store.db[p], req[c].id)]_vars

\* ------------------------------------------------- what a Create returns
\* C29: a successful Create for name N returns the id and the block of an
\* entry of the ledger whose name is N.
C29_Step ==
    \A c \in Clients :
        (/\ Returns(c)
         /\ res'[c].kind = "create" /\ res'[c].status = "ok")
            => \E m \in Positions(store'.db) :
                  /\ At(store'.db, m).id = req[c].id
                  /\ At(store'.db, m).cidr = res'[c].cidr
                  /\ At(store'.db, m).name = req[c].name

C29_CreateReturnsOwnName == [][C29_Step]_vars

\* Apart from the name: a successful Create returns the block of the entry
\* of the ledger that has the id of the request.
CreateReturnsEntryOfID ==
    [][\A c \in Clients :
          (/\ Returns(c)
           /\ res'[c].kind = "create" /\ res'[c].status = "ok")
              => \E m \in Positions(store'.db) :
                    /\ At(store'.db, m).id = req[c].id
                    /\ At(store'.db, m).cidr = res'[c].cidr]_vars

\* ------------------------------------------------------- lookup by block
\* C30: no two entries of the ledger have the same block.
C30_UniqueBlocks ==
    \A m, n \in Positions(store.db) :
        m # n => At(store.db, m).cidr # At(store.db, n).cidr

\* Two entries of the same block are a single-address block handed out
\* twice, or an entry and another one under it.
DuplicatesAreKnown ==
    \A m, n \in Positions(store.db) :
        (m # n /\ At(store.db, m).cidr = At(store.db, n).cidr)
            => \/ At(store.db, m).cidr.len = Bits
               \/ At(store.db, m).parent = At(store.db, m).cidr
               \/ At(store.db, n).parent = At(store.db, n).cidr

====
